---- MODULE Spec2Model ----
(***************************************************************************)
(* Model of scripts/import_sri_lankan_cities.py: the generator that reads  *)
(* a JSON array of city records and writes a SQL migration.                *)
(*                                                                         *)
(* Text is a sequence of one-character strings, so that escaping and       *)
(* quoting are computed character by character.  A float is an integer     *)
(* number of tenths of a degree (6.9 is 69, 79.0 is 790).  A Python value  *)
(* that may be None is a record [t, s] or [t, v] whose tag t says which.   *)
(*                                                                         *)
(* print is taken never to raise.  name_en is absent, null or a string.    *)
(* The database that would run the generated statements is no part of the  *)
(* program and is not modelled: the written file is kept as its header     *)
(* values and its rows.                                                    *)
(***************************************************************************)
EXTENDS Integers, Sequences, FiniteSets, TLC

VARIABLES
    pc,           \* position of the process: main, generate, loop, return, crashed, exited
    inputFile,    \* the file at json_file: [kind, items]
    cities_data,  \* the loaded array (line 25)
    header,       \* the values formatted into the header comment (lines 52-55)
    idx,          \* number of elements of cities_data the for loop has consumed
    values,       \* the list of SQL tuples (line 57)
    diag,         \* the diagnostics printed so far
    outFile,      \* the file at sql_file
    priorFile,    \* the file at sql_file when the process started
    opened,       \* whether sql_file was opened for writing (line 135)
    success,      \* the value generate_sql_migration returned
    exc,          \* the exception that left main uncaught, if any
    status        \* the process exit status

vars == <<pc, inputFile, cities_data, header, idx, values, diag, outFile,
          priorFile, opened, success, exc, status>>

----------------------------------------------------------------------------
(* Bounds of the inputs *)

\* longest input array built from the record pool
MaxRecords == 2

\* longest name over the alphabet NameChars
MaxNameLen == 4

----------------------------------------------------------------------------
(* Python values *)

Q == "'"

None == [t |-> "None", s |-> <<>>]

Str(s) == [t |-> "str", s |-> s]

\* a JSON member that is absent, null, a number or a string
Absent == [t |-> "absent", v |-> 0]

Null == [t |-> "null", v |-> 0]

Num(n) == [t |-> "num", v |-> n]

\* a JSON string that spells the number n
NumText(n) == [t |-> "numtext", v |-> n]

\* a JSON string that spells no number, such as "abc"
Text == [t |-> "text", v |-> 0]

\* city.get('name_en'): the member, None when it is absent or null
GetName(city) ==
    IF city.name_en.t \in {"absent", "null"} THEN None ELSE Str(city.name_en.s)

\* city.get(key, 0): the member, 0 when it is absent
GetOr0(member) ==
    IF member.t = "absent" THEN Num(0) ELSE member

\* float(x): the number, or the exception float raises
PyFloat(x) ==
    CASE x.t \in {"num", "numtext"} -> [ok |-> TRUE, v |-> x.v, exc |-> "none"]
      [] x.t = "text" -> [ok |-> FALSE, v |-> 0, exc |-> "ValueError"]
      [] OTHER -> [ok |-> FALSE, v |-> 0, exc |-> "TypeError"]

\* the text an f-string puts for a str or for None
PyFormat(x) ==
    IF x.t = "None" THEN <<"N", "o", "n", "e">> ELSE x.s

----------------------------------------------------------------------------
(* clean_value *)

RECURSIVE Replace(_)
\* str.replace("'", "''")
Replace(s) ==
    IF s = <<>> THEN <<>>
    ELSE IF Head(s) = Q THEN <<Q, Q>> \o Replace(Tail(s))
    ELSE <<Head(s)>> \o Replace(Tail(s))

clean_value_unescaped(value) ==
    IF value.t = "None" \/ value.s = <<"N", "U", "L", "L">> \/ value.s = <<>>
    THEN None
    ELSE Str(value.s)

clean_value(value) ==
    IF value.t = "None" \/ value.s = <<"N", "U", "L", "L">> \/ value.s = <<>>
    THEN None
    ELSE Str(Replace(value.s))

----------------------------------------------------------------------------
(* generate_sql_migration: the per-record transformation *)

major_cities ==
    {
      <<"C","o","l","o","m","b","o">>,
      <<"K","a","n","d","y">>,
      <<"G","a","l","l","e">>,
      <<"N","e","g","o","m","b","o">>,
      <<"J","a","f","f","n","a">>,
      <<"T","r","i","n","c","o","m","a","l","e","e">>,
      <<"B","a","t","t","i","c","a","l","o","a">>,
      <<"R","a","t","n","a","p","u","r","a">>,
      <<"A","n","u","r","a","d","h","a","p","u","r","a">>,
      <<"P","o","l","o","n","n","a","r","u","w","a">>,
      <<"M","a","t","a","r","a">>,
      <<"H","a","m","b","a","n","t","o","t","a">>,
      <<"K","u","r","u","n","e","g","a","l","a">>,
      <<"P","u","t","t","a","l","a","m">>,
      <<"B","a","d","u","l","l","a">>,
      <<"B","a","n","d","a","r","a","w","e","l","a">>,
      <<"N","u","w","a","r","a"," ","E","l","i","y","a">>,
      <<"D","a","m","b","u","l","l","a">>,
      <<"S","i","g","i","r","i","y","a">>,
      <<"V","a","v","u","n","i","y","a">>,
      <<"M","a","n","n","a","r">>
    }

LatMin == 55

LatMax == 100

LonMin == 790

LonMax == 820

MajorPopulation == 100000

\* line 73
InvalidCoordinates_and(latitude, longitude) ==
    latitude = 0 /\ longitude = 0

InvalidCoordinates(latitude, longitude) ==
    latitude = 0 \/ longitude = 0

\* line 78
InBounds(latitude, longitude) ==
    /\ LatMin <= latitude /\ latitude <= LatMax
    /\ LonMin <= longitude /\ longitude <= LonMax

\* line 82: name_en in major_cities if name_en else False
IsMajor(name_en) ==
    IF name_en.t = "None" \/ name_en.s = <<>> THEN FALSE
    ELSE name_en.s \in major_cities

\* line 85, None being [t |-> "None"]
Population_swapped(is_major) ==
    IF is_major THEN [t |-> "None", v |-> 0] ELSE [t |-> "int", v |-> MajorPopulation]

Population(is_major) ==
    IF is_major THEN [t |-> "int", v |-> MajorPopulation] ELSE [t |-> "None", v |-> 0]

\* line 88: the tuple, field by field as the f-string renders it
FormatValue(name_en, latitude, longitude, population, is_major) ==
    [name          |-> <<Q>> \o PyFormat(name_en) \o <<Q>>,
     country       |-> "'Sri Lanka'",
     state         |-> "'Sri Lanka'",
     latitude      |-> latitude,
     longitude     |-> longitude,
     population    |-> IF population.t = "None" \/ population.v = 0
                       THEN "NULL" ELSE ToString(population.v),
     is_major_city |-> IF is_major THEN "true" ELSE "false",
     timezone      |-> "'Asia/Colombo'"]

SkipMsg(name_en) == [kind |-> "skip", name |-> name_en]

WarnMsg(name_en, latitude, longitude) ==
    [kind |-> "warn", name |-> name_en, latitude |-> latitude, longitude |-> longitude]

\* line 92: city.get('id', 'unknown')
ErrorMsg(city, e) ==
    [kind |-> "error", id |-> IF city.id.t = "absent" THEN "unknown" ELSE ToString(city.id.v),
     exc |-> e]

\* the body of the for loop with the bounds check turned into a rejection
ProcessCity_rejecting(city) ==
    IF ~city.obj
    THEN [outcome |-> "raise", exc |-> "AttributeError", msgs |-> <<>>]
    ELSE
    LET name_en == clean_value(GetName(city))
        lat == PyFloat(GetOr0(city.latitude))
        lon == PyFloat(GetOr0(city.longitude))
    IN  IF ~lat.ok THEN [outcome |-> "except", msgs |-> <<ErrorMsg(city, lat.exc)>>]
        ELSE IF ~lon.ok THEN [outcome |-> "except", msgs |-> <<ErrorMsg(city, lon.exc)>>]
        ELSE IF InvalidCoordinates(lat.v, lon.v)
        THEN [outcome |-> "continue", msgs |-> <<SkipMsg(name_en)>>]
        ELSE IF ~InBounds(lat.v, lon.v)
        THEN [outcome |-> "continue", msgs |-> <<WarnMsg(name_en, lat.v, lon.v)>>]
        ELSE
        LET is_major == IsMajor(name_en)
            population == Population(is_major)
        IN  [outcome |-> "append",
             value |-> FormatValue(name_en, lat.v, lon.v, population, is_major),
             msgs |-> <<>>]

\* lines 66-93, the body of the for loop for one element of cities_data:
\* what it does to values ("append" or not), what it prints, and whether an
\* exception leaves the loop.  An element that is no JSON object has no get
\* method: line 68 raises AttributeError, and so does line 92 in the handler.
ProcessCity(city) ==
    IF ~city.obj
    THEN [outcome |-> "raise", exc |-> "AttributeError", msgs |-> <<>>]
    ELSE
    LET name_en == clean_value(GetName(city))
        lat == PyFloat(GetOr0(city.latitude))
        lon == PyFloat(GetOr0(city.longitude))
    IN  IF ~lat.ok THEN [outcome |-> "except", msgs |-> <<ErrorMsg(city, lat.exc)>>]
        ELSE IF ~lon.ok THEN [outcome |-> "except", msgs |-> <<ErrorMsg(city, lon.exc)>>]
        ELSE IF InvalidCoordinates(lat.v, lon.v)
        THEN [outcome |-> "continue", msgs |-> <<SkipMsg(name_en)>>]
        ELSE
        LET warn == IF ~InBounds(lat.v, lon.v)
                    THEN <<WarnMsg(name_en, lat.v, lon.v)>> ELSE <<>>
            is_major == IsMajor(name_en)
            population == Population(is_major)
        IN  [outcome |-> "append",
             value |-> FormatValue(name_en, lat.v, lon.v, population, is_major),
             msgs |-> warn]

----------------------------------------------------------------------------
(* The inputs the process may meet *)

NameChars == {"a", Q}

BoundedNames == UNION {[1..n -> NameChars] : n \in 0..MaxNameLen}

Kandy == <<"K", "a", "n", "d", "y">>

TestNames ==
    { [t |-> "absent", s |-> <<>>],
      [t |-> "null", s |-> <<>>],
      [t |-> "str", s |-> <<>>],
      [t |-> "str", s |-> <<"N", "U", "L", "L">>],
      [t |-> "str", s |-> Kandy],
      [t |-> "str", s |-> <<"k", "a", "n", "d", "y">>],
      [t |-> "str", s |-> <<"O", Q, "B">>] }

City(name, lat, lon, id) ==
    [obj |-> TRUE, name_en |-> name, latitude |-> lat, longitude |-> lon, id |-> id]

\* an array element that is no JSON object (a number, a string, a list, null)
NonObject ==
    [obj |-> FALSE, name_en |-> [t |-> "absent", s |-> <<>>],
     latitude |-> Absent, longitude |-> Absent, id |-> Absent]

\* every name with coordinates inside the box; two names with each kind of
\* coordinates; the corners of the box and points just outside it; one
\* malformed record carrying an id; one element that is no object
Records ==
    {City(n, Num(69), Num(798), Absent) : n \in TestNames}
    \cup {City(n, c[1], c[2], Absent) :
            n \in {[t |-> "str", s |-> Kandy], [t |-> "absent", s |-> <<>>]},
            c \in {<<Num(120), Num(798)>>, <<Num(0), Num(798)>>,
                   <<Num(69), Absent>>, <<Text, Num(798)>>,
                   <<Num(69), Num(850)>>, <<NumText(69), Num(798)>>,
                   <<Num(69), Null>>, <<Num(0), Text>>}}
    \cup {City([t |-> "str", s |-> Kandy], c[1], c[2], Absent) :
            c \in {<<Num(55), Num(790)>>, <<Num(100), Num(820)>>,
                   <<Num(54), Num(821)>>, <<Num(-69), Num(798)>>}}
    \cup {City([t |-> "str", s |-> Kandy], Text, Num(798), Num(7))}
    \cup {NonObject}

Arrays ==
    UNION {[1..n -> Records] : n \in 0..MaxRecords}
    \cup {<<City([t |-> "str", s |-> s], Num(69), Num(798), Absent)>> : s \in BoundedNames}

NoHeader == [total_cities |-> 0, timestamp |-> 0]

AbsentFile == [kind |-> "absent", header |-> NoHeader, rows |-> <<>>]

OldFile == [kind |-> "old", header |-> NoHeader, rows |-> <<>>]

\* what os.system("date") may return: 0, or the wait status of a failed command
DateStatus == {0, 32512}

Init ==
    /\ pc = "main"
    /\ inputFile \in
         {[kind |-> k, items |-> <<>>] : k \in {"missing", "invalid", "scalar"}}
         \cup {[kind |-> "array", items |-> a] : a \in Arrays}
    /\ priorFile \in {AbsentFile, OldFile}
    /\ outFile = priorFile
    /\ cities_data = <<>>
    /\ header = NoHeader
    /\ idx = 0
    /\ values = <<>>
    /\ diag = <<>>
    /\ opened = FALSE
    /\ success = "None"
    /\ exc = "none"
    /\ status = -1

----------------------------------------------------------------------------
(* main and generate_sql_migration, step by step *)

\* lines 150-152: the input file does not exist
MainNotFound ==
    /\ pc = "main"
    /\ inputFile.kind = "missing"
    /\ diag' = Append(diag, [kind |-> "not_found"])
    /\ status' = 1
    /\ pc' = "exited"
    /\ UNCHANGED <<inputFile, cities_data, header, idx, values, outFile,
                   priorFile, opened, success, exc>>

\* line 155: mkdir of the output directory, which may raise
MainMkdir ==
    /\ pc = "main"
    /\ inputFile.kind # "missing"
    /\ \E made \in BOOLEAN :
         IF made
         THEN pc' = "generate" /\ exc' = exc
         ELSE pc' = "crashed" /\ exc' = "OSError"
    /\ UNCHANGED <<inputFile, cities_data, header, idx, values, diag, outFile,
                   priorFile, opened, success, status>>

\* lines 23-28 with the failure handled by going on with an empty array
ReadJson_continues ==
    /\ pc = "generate"
    /\ IF inputFile.kind = "scalar"
       THEN /\ exc' = "TypeError"
            /\ pc' = "crashed"
            /\ UNCHANGED <<cities_data, header, diag, values>>
       ELSE /\ cities_data' = inputFile.items
            /\ \E ts \in DateStatus :
                 header' = [total_cities |-> Len(inputFile.items), timestamp |-> ts]
            /\ values' = <<>>
            /\ diag' = IF inputFile.kind = "invalid"
                       THEN Append(diag, [kind |-> "read_error"]) ELSE diag
            /\ pc' = "loop"
            /\ UNCHANGED exc
    /\ UNCHANGED <<inputFile, idx, outFile, priorFile, opened, success, status>>

\* lines 21-57: load the JSON document, build the header
ReadJson ==
    /\ pc = "generate"
    /\ IF inputFile.kind = "invalid"
       THEN /\ diag' = Append(diag, [kind |-> "read_error"])
            /\ success' = "False"
            /\ pc' = "return"
            /\ UNCHANGED <<cities_data, header, values, exc>>
       ELSE IF inputFile.kind = "scalar"
       THEN \* line 30: len() of a number, a boolean or null raises TypeError
            /\ exc' = "TypeError"
            /\ pc' = "crashed"
            /\ UNCHANGED <<cities_data, header, values, diag, success>>
       ELSE /\ cities_data' = inputFile.items
            /\ \E ts \in DateStatus :
                 header' = [total_cities |-> Len(inputFile.items), timestamp |-> ts]
            /\ values' = <<>>
            /\ pc' = "loop"
            /\ UNCHANGED <<diag, success, exc>>
    /\ UNCHANGED <<inputFile, idx, outFile, priorFile, opened, status>>

\* the loop adding each tuple at the front of values
LoopStep_prepend ==
    /\ pc = "loop"
    /\ idx < Len(cities_data)
    /\ LET r == ProcessCity(cities_data[idx + 1])
       IN  /\ idx' = idx + 1
           /\ diag' = diag \o r.msgs
           /\ IF r.outcome = "raise"
              THEN exc' = r.exc /\ pc' = "crashed" /\ values' = values
              ELSE /\ values' = IF r.outcome = "append"
                                THEN <<r.value>> \o values ELSE values
                   /\ UNCHANGED <<exc, pc>>
    /\ UNCHANGED <<inputFile, cities_data, header, outFile, priorFile, opened,
                   success, status>>

\* lines 65-93: one iteration of the for loop
LoopStep ==
    /\ pc = "loop"
    /\ idx < Len(cities_data)
    /\ LET r == ProcessCity(cities_data[idx + 1])
       IN  /\ idx' = idx + 1
           /\ diag' = diag \o r.msgs
           /\ IF r.outcome = "raise"
              THEN exc' = r.exc /\ pc' = "crashed" /\ values' = values
              ELSE /\ values' = IF r.outcome = "append"
                                THEN Append(values, r.value) ELSE values
                   /\ UNCHANGED <<exc, pc>>
    /\ UNCHANGED <<inputFile, cities_data, header, outFile, priorFile, opened,
                   success, status>>

\* lines 95-142: join the tuples, write the file
WriteSql ==
    /\ pc = "loop"
    /\ idx = Len(cities_data)
    /\ \E w \in {"written", "open_fails", "write_fails"} :
         CASE w = "written" ->
                /\ outFile' = [kind |-> "sql", header |-> header, rows |-> values]
                /\ opened' = TRUE
                /\ diag' = Append(diag, [kind |-> "generated"])
                /\ success' = "True"
           [] w = "open_fails" ->
                /\ UNCHANGED <<outFile, opened>>
                /\ diag' = Append(diag, [kind |-> "write_error"])
                /\ success' = "False"
           [] w = "write_fails" ->
                \* open(..., 'w') has truncated the file; no cleanup follows
                /\ outFile' = [kind |-> "truncated", header |-> NoHeader, rows |-> <<>>]
                /\ opened' = TRUE
                /\ diag' = Append(diag, [kind |-> "write_error"])
                /\ success' = "False"
    /\ pc' = "return"
    /\ UNCHANGED <<inputFile, cities_data, header, idx, values, priorFile, exc, status>>

\* main returning 0 whatever generate_sql_migration returned
MainReturn_zero ==
    /\ pc = "return"
    /\ status' = 0
    /\ pc' = "exited"
    /\ UNCHANGED <<inputFile, cities_data, header, idx, values, diag, outFile,
                   priorFile, opened, success, exc>>

\* lines 158-170 and 173: main returns 0 or 1, sys.exit passes it on
MainReturn ==
    /\ pc = "return"
    /\ status' = IF success = "True" THEN 0 ELSE 1
    /\ pc' = "exited"
    /\ UNCHANGED <<inputFile, cities_data, header, idx, values, diag, outFile,
                   priorFile, opened, success, exc>>

\* line 173: an exception nothing caught ends the interpreter with status 1
Uncaught ==
    /\ pc = "crashed"
    /\ status' = 1
    /\ pc' = "exited"
    /\ UNCHANGED <<inputFile, cities_data, header, idx, values, diag, outFile,
                   priorFile, opened, success, exc>>

Next ==
    \/ MainNotFound
    \/ MainMkdir
    \/ ReadJson
    \/ LoopStep
    \/ WriteSql
    \/ MainReturn
    \/ Uncaught

Spec == Init /\ [][Next]_vars

----------------------------------------------------------------------------
(* The vocabulary of the properties *)

\* a coordinate member that float() accepts: absent (0), a number, numeric text
WellFormed(member) == member.t \in {"absent", "num", "numtext"}

Coerced(member) == IF member.t = "absent" THEN 0 ELSE member.v

HasGoodCoordinates(city) ==
    /\ city.obj
    /\ WellFormed(city.latitude) /\ WellFormed(city.longitude)
    /\ Coerced(city.latitude) # 0 /\ Coerced(city.longitude) # 0

HasZeroCoordinate(city) ==
    /\ city.obj
    /\ \/ WellFormed(city.latitude) /\ Coerced(city.latitude) = 0
       \/ WellFormed(city.longitude) /\ Coerced(city.longitude) = 0

\* a record whose processing raises: no object, or a coordinate float() rejects
Malformed(city) ==
    ~city.obj \/ ~WellFormed(city.latitude) \/ ~WellFormed(city.longitude)

\* the box of line 78, in tenths of a degree
OutsideBox(latitude, longitude) ==
    latitude < 55 \/ latitude > 100 \/ longitude < 790 \/ longitude > 820

NameIsAbsent(city) ==
    \/ city.name_en.t \in {"absent", "null"}
    \/ city.name_en.s = <<"N", "U", "L", "L">>
    \/ city.name_en.s = <<>>

\* the loop has just consumed a record with good coordinates
JustProcessedGood == idx >= 1 /\ HasGoodCoordinates(cities_data[idx])

LastValue == values[Len(values)]

RECURSIVE Undouble(_)
\* read a SQL literal's body: each pair of quotes stands for one quote
Undouble(s) ==
    IF s = <<>> THEN <<>>
    ELSE IF Len(s) >= 2 /\ s[1] = Q /\ s[2] = Q THEN <<Q>> \o Undouble(SubSeq(s, 3, Len(s)))
    ELSE <<Head(s)>> \o Undouble(Tail(s))

IsQuote(c) == c = Q

NotQuote(c) == c # Q

----------------------------------------------------------------------------
(* C1: at every point of the loop, values holds exactly one tuple for each  *)
(* consumed record whose latitude and longitude are well-formed and nonzero, *)
(* in the order of the input, and a written file holds these tuples for the *)
(* whole input.                                                             *)
C1_OneTuplePerGoodRecordInOrder ==
    LET good == SelectSeq(SubSeq(cities_data, 1, idx), HasGoodCoordinates)
    IN  /\ Len(values) = Len(good)
        /\ \A k \in 1..Len(values) :
             k <= Len(good) => values[k] = ProcessCity(good[k]).value
        /\ outFile.kind = "sql" => idx = Len(cities_data) /\ outFile.rows = values

C1_Witness ==
    /\ outFile.kind = "sql"
    /\ Len(cities_data) = 2
    /\ Len(outFile.rows) = 2
    /\ outFile.rows[1] # outFile.rows[2]
    /\ outFile.rows[1].latitude = Coerced(cities_data[1].latitude)

(* C2: an iteration on a record whose latitude or longitude coerces to 0    *)
(* (an absent key included) leaves values as it was and goes on with the    *)
(* next record; a file written from an input of only such records has no    *)
(* rows.                                                                    *)
C2_ZeroCoordinateSkipped ==
    /\ [][(pc = "loop" /\ idx < Len(cities_data)
            /\ HasZeroCoordinate(cities_data[idx + 1]))
          => (values' = values /\ idx' = idx + 1 /\ pc' = "loop")]_vars
    /\ []((outFile.kind = "sql"
            /\ \A i \in 1..Len(cities_data) : HasZeroCoordinate(cities_data[i]))
          => outFile.rows = <<>>)

C2_Witness ==
    /\ outFile.kind = "sql"
    /\ Len(cities_data) = 2
    /\ cities_data[1].latitude = Num(0)
    /\ cities_data[2].longitude = Absent
    /\ HasZeroCoordinate(cities_data[1]) /\ HasZeroCoordinate(cities_data[2])
    /\ outFile.rows = <<>>
    /\ Len(diag) >= 2 /\ diag[1].kind = "skip" /\ diag[2].kind = "skip"

(* C3: an exception raised while processing one record, whatever makes the  *)
(* record malformed, is caught and reported with the record's id or         *)
(* "unknown", and never leaves the loop.                                    *)
C3_RecordErrorNeverAbortsBatch ==
    (idx >= 1 /\ Malformed(cities_data[idx])) =>
      /\ exc = "none"
      /\ pc # "crashed"
      /\ \E i \in 1..Len(diag) :
           /\ diag[i].kind = "error"
           /\ diag[i].id = IF cities_data[idx].id.t = "absent" THEN "unknown"
                           ELSE ToString(cities_data[idx].id.v)

(* C4: in the tuple of a record just accepted, an absent name is the        *)
(* unquoted token NULL and a present name is wrapped in single quotes; an   *)
(* absent population is the token NULL; the boolean is true or false.       *)
C4_AbsentNameIsNull ==
    (JustProcessedGood /\ Len(values) >= 1) =>
      /\ NameIsAbsent(cities_data[idx]) => LastValue.name = <<"N", "U", "L", "L">>
      /\ ~NameIsAbsent(cities_data[idx]) =>
           /\ Len(LastValue.name) >= 2
           /\ Head(LastValue.name) = Q
           /\ LastValue.name[Len(LastValue.name)] = Q
      /\ LastValue.population \in {"NULL", "100000"}
      /\ LastValue.is_major_city \in {"true", "false"}

(* C5: the tuple of a record just accepted has is_major_city true and       *)
(* population 100000 exactly when the record's name_en is one of the 21     *)
(* names, and false and NULL otherwise.                                     *)
C5_MajorIffInSet ==
    /\ Cardinality(major_cities) = 21
    /\ JustProcessedGood =>
         /\ Len(values) >= 1
         /\ IF cities_data[idx].name_en.t = "str"
               /\ cities_data[idx].name_en.s \in major_cities
            THEN LastValue.is_major_city = "true" /\ LastValue.population = "100000"
            ELSE LastValue.is_major_city = "false" /\ LastValue.population = "NULL"

C5_Witness ==
    /\ JustProcessedGood
    /\ cities_data[idx].name_en.s = Kandy
    /\ idx = 2
    /\ cities_data[1].name_en.s = <<"k", "a", "n", "d", "y">>
    /\ Len(values) = 2
    /\ values[1].is_major_city = "false" /\ values[1].population = "NULL"
    /\ values[2].is_major_city = "true" /\ values[2].population = "100000"

(* C6: a record with well-formed nonzero coordinates outside the box        *)
(* [5.5, 10.0] x [79.0, 82.0] is appended with the tuple its fields give, a *)
(* warning is printed for it, and the loop goes on; inside the box no       *)
(* warning is printed.                                                      *)
C6_OutOfBoundsStillIncluded ==
    JustProcessedGood =>
      LET city == cities_data[idx]
          name_en == clean_value(GetName(city))
          latitude == Coerced(city.latitude)
          longitude == Coerced(city.longitude)
          warned == \E i \in 1..Len(diag) : diag[i] = WarnMsg(name_en, latitude, longitude)
      IN  IF OutsideBox(latitude, longitude)
          THEN /\ exc = "none"
               /\ pc # "crashed"
               /\ Len(values) >= 1
               /\ LastValue = FormatValue(name_en, latitude, longitude,
                                          Population(IsMajor(name_en)), IsMajor(name_en))
               /\ warned
               /\ outFile.kind = "sql" => outFile.rows[Len(outFile.rows)] = LastValue
          ELSE ~warned

C6_Witness ==
    /\ outFile.kind = "sql"
    /\ idx = 1
    /\ cities_data[1].latitude = Num(120)
    /\ HasGoodCoordinates(cities_data[1])
    /\ Len(outFile.rows) = 1
    /\ outFile.rows[1].latitude = 120
    /\ diag[1].kind = "warn"

(* C7: for a present name, the literal in the tuple is the name with each   *)
(* single quote doubled and every other character unchanged, between two    *)
(* quotes; un-doubling it gives the name back.                              *)
C7_QuotesDoubledRoundTrip ==
    (JustProcessedGood /\ ~NameIsAbsent(cities_data[idx])) =>
      /\ Len(values) >= 1
      /\ Len(LastValue.name) >= 2
      /\ LET lit == LastValue.name
             body == SubSeq(lit, 2, Len(lit) - 1)
             s == cities_data[idx].name_en.s
         IN  /\ lit[1] = Q /\ lit[Len(lit)] = Q
             /\ Len(body) = Len(s) + Len(SelectSeq(s, IsQuote))
             /\ SelectSeq(body, NotQuote) = SelectSeq(s, NotQuote)
             /\ Undouble(body) = s

C7_Witness ==
    /\ JustProcessedGood
    /\ cities_data[idx].name_en.s = <<"O", Q, "B">>
    /\ Len(values) >= 1
    /\ LastValue.name = <<Q, "O", Q, Q, "B", Q>>

(* C8: the exit status is 0 exactly when the input file exists, the JSON    *)
(* was read and the output file was written, and 1 on every other path.     *)
C8_ExitStatus ==
    /\ pc # "exited" => status = -1
    /\ pc = "exited" =>
         /\ status \in {0, 1}
         /\ status = 0 <=> /\ inputFile.kind \notin {"missing", "invalid"}
                           /\ outFile.kind = "sql"
         /\ inputFile.kind \in {"missing", "invalid"} => status = 1
         /\ (\E i \in 1..Len(diag) : diag[i].kind \in {"read_error", "write_error"})
              => status = 1
         /\ exc # "none" => status = 1

C8_Witness ==
    /\ pc = "exited"
    /\ status = 1
    /\ inputFile.kind = "array"
    /\ opened
    /\ outFile.kind = "truncated"
    /\ diag[Len(diag)].kind = "write_error"

(* C10: when reading or parsing the JSON fails, generate_sql_migration      *)
(* returns False with no record processed and the destination neither       *)
(* opened nor changed.                                                      *)
C10_ReadFailureLeavesDestination ==
    inputFile.kind = "invalid" =>
      /\ ~opened
      /\ outFile = priorFile
      /\ idx = 0
      /\ values = <<>>
      /\ pc # "loop"
      /\ (pc \in {"return", "exited"} /\ exc = "none") => success = "False"

C10_Witness ==
    /\ inputFile.kind = "invalid"
    /\ pc = "exited"
    /\ success = "False"
    /\ priorFile = OldFile
    /\ outFile = OldFile

====
